---- MODULE Spec2Model ----
(***************************************************************************)
(* Model of the adsb crate: the Mode-S / ADS-B message parser              *)
(* (src/src/parser.rs) and the CRC-24 engine (src/src/crc.rs).             *)
(*                                                                         *)
(* The crate is a library of pure functions.  A byte slice is a sequence   *)
(* of integers in 0..255; a nom bit-level input (&[u8], usize) is a record *)
(* [s |-> remaining bytes, o |-> bit offset in the first byte].  A parser  *)
(* result is a record tagged "Ok" (rest, val), "Error" (rest, kind: nom's  *)
(* recoverable Err::Error with its ErrorKind) or "Panic" (an index out of  *)
(* range or an arithmetic overflow that aborts the call).                  *)
(***************************************************************************)
EXTENDS Integers, Sequences, FiniteSets, TLC

VARIABLES
    data,     \* the byte slice handed to parse_binary, or the payload a sender protects
    pc,       \* where the caller is: "input", "parsed"; "payload", "framed", "received", "checked"
    result,   \* what parse_binary returned
    frame,    \* the bytes on the channel: payload and parity
    flipped,  \* the bit of the frame that was inverted in transit, or -1
    rem,      \* what get_crc_remainder returned for the frame
    arg,      \* the argument of a call of get_position, parse_avr, Squawk::from_str
              \* or decode_id_13_field
    out,      \* what that call returned
    once,     \* the state of the lazy CRC_TABLE: "uninit", "running", "done"
    table,    \* the CRC_TABLE the threads share
    calls     \* per thread: the get_crc_remainder call it is in

vars == <<data, pc, result, frame, flipped, rem, arg, out, once, table, calls>>

\* what the parser and the CRC channel leave alone
others == <<arg, out, once, table, calls>>

----------------------------------------------------------------------------
(* Machine integers *)

RECURSIVE Pow2(_)
Pow2(n) == IF n = 0 THEN 1 ELSE 2 * Pow2(n - 1)

\* a ^ b on unsigned integers
RECURSIVE BitXor(_, _)
BitXor(a, b) ==
    IF a = 0 THEN b
    ELSE IF b = 0 THEN a
    ELSE 2 * BitXor(a \div 2, b \div 2) + ((a + b) % 2)

\* a | b on unsigned integers
RECURSIVE BitOr(_, _)
BitOr(a, b) ==
    IF a = 0 THEN b
    ELSE IF b = 0 THEN a
    ELSE 2 * BitOr(a \div 2, b \div 2) + (IF a % 2 = 1 \/ b % 2 = 1 THEN 1 ELSE 0)

\* a & b on unsigned integers
RECURSIVE BitAnd(_, _)
BitAnd(a, b) ==
    IF a = 0 \/ b = 0 THEN 0
    ELSE 2 * BitAnd(a \div 2, b \div 2) + (IF a % 2 = 1 /\ b % 2 = 1 THEN 1 ELSE 0)

U16_MAX == Pow2(16) - 1
I16_MAX == Pow2(15) - 1
I16_MIN == 0 - Pow2(15)
U24_MOD == Pow2(24)

\* Rust slice s[n..]
Slice(s, n) == SubSeq(s, n + 1, Len(s))

\* Rust slice s[..n]
Prefix(s, n) == SubSeq(s, 1, n)

----------------------------------------------------------------------------
(* Parser results *)

Ok(rest, val) == [tag |-> "Ok", rest |-> rest, val |-> val, kind |-> "None"]
Error(rest, kind) == [tag |-> "Error", rest |-> rest, val |-> 0, kind |-> kind]
Panic(rest, kind) == [tag |-> "Panic", rest |-> rest, val |-> 0, kind |-> kind]

----------------------------------------------------------------------------
(* CRC-24 engine, src/src/crc.rs *)

MODES_GENERATOR_POLY == 16774153   \* 0xfff409

\* The inner loop of the table construction: j shifts of the register c.
\* The u32 register is kept modulo 2^24: under <<, ^ and the final
\* & 0x00ffffff its bits 24..31 never flow back into bits 0..23, and the
\* test c & 0x800000 reads bit 23 only.
RECURSIVE crc_table_shift(_, _)
crc_table_shift(c, j) ==
    IF j = 0 THEN c
    ELSE IF (c \div 8388608) % 2 = 1
         THEN crc_table_shift(BitXor((c * 2) % U24_MOD, MODES_GENERATOR_POLY), j - 1)
         ELSE crc_table_shift((c * 2) % U24_MOD, j - 1)

crc_table_entry(i) == crc_table_shift(i * 65536, 8) % U24_MOD

CRC_TABLE == [i \in 0..255 |-> crc_table_entry(i)]

\* idx = byte, without the top byte of the register (the variant C10 is
\* tested against)
crc_step_no_feedback(remainder, byte) ==
    BitXor(((remainder % 65536) * 256) % U24_MOD, CRC_TABLE[byte]) % U24_MOD

\* One iteration of the loop over input.iter().take(num_bytes - 3):
\* rem = ((rem << 8) ^ CRC_TABLE[idx]) & 0xffffff, with rem << 8 taken
\* modulo 2^24 at once (the mask discards bits 24..31 of the u32).
\* An index outside the table is the -1 that get_crc_remainder turns into a panic.
crc_step(remainder, byte) ==
    LET idx == BitXor(byte, (remainder \div 65536) % 256)
    IN  IF idx \notin DOMAIN CRC_TABLE THEN -1
        ELSE BitXor(((remainder % 65536) * 256) % U24_MOD, CRC_TABLE[idx]) % U24_MOD

RECURSIVE crc_loop(_, _, _, _)
crc_loop(input, i, n, remainder) ==
    IF i > n \/ remainder < 0 THEN remainder
    ELSE crc_loop(input, i + 1, n, crc_step(remainder, input[i]))

\* the last three bytes XOR-ed in little-endian order (the variant C9 is
\* tested against)
get_crc_remainder_swapped(input) ==
    LET num_bytes == Len(input)
    IN  IF num_bytes < 3 THEN Error(input, "InputTooShort")
        ELSE LET r == crc_loop(input, 1, num_bytes - 3, 0)
             IN  IF r < 0 THEN Panic(input, "IndexOutOfBounds")
                 ELSE Ok(input,
                         BitXor(BitXor(BitXor(r, input[num_bytes] * 65536),
                                       input[num_bytes - 1] * 256),
                                input[num_bytes - 2]))

\* the length test off by one: three bytes are too short (the variant C11
\* is tested against)
get_crc_remainder_four(input) ==
    LET num_bytes == Len(input)
    IN  IF num_bytes <= 3 THEN Error(input, "InputTooShort")
        ELSE LET r == crc_loop(input, 1, num_bytes - 3, 0)
             IN  IF r < 0 THEN Panic(input, "IndexOutOfBounds")
                 ELSE Ok(input,
                         BitXor(BitXor(BitXor(r, input[num_bytes - 2] * 65536),
                                       input[num_bytes - 1] * 256),
                                input[num_bytes]))

\* Result<u32, CrcError>: val is the remainder
get_crc_remainder(input) ==
    LET num_bytes == Len(input)
    IN  IF num_bytes < 3 THEN Error(input, "InputTooShort")
        ELSE LET r == crc_loop(input, 1, num_bytes - 3, 0)
             IN  IF r < 0 THEN Panic(input, "IndexOutOfBounds")
                 ELSE Ok(input,
                         BitXor(BitXor(BitXor(r, input[num_bytes - 2] * 65536),
                                       input[num_bytes - 1] * 256),
                                input[num_bytes]))

\* The loop body of get_crc_remainder over the table a thread obtained by
\* dereferencing the lazy static
crc_step_shared(tbl, remainder, byte) ==
    BitXor(((remainder % 65536) * 256) % U24_MOD,
           tbl[BitXor(byte, (remainder \div 65536) % 256)]) % U24_MOD

\* rem ^ (input[n-3] << 16) ^ (input[n-2] << 8) ^ input[n-1]
crc_finish(input, remainder) ==
    BitXor(BitXor(BitXor(remainder, input[Len(input) - 2] * 65536),
                  input[Len(input) - 1] * 256),
           input[Len(input)])

\* A dereference that does not wait for a running initialiser and reads the
\* not yet written static (the variant C17 is tested against)
CRC_TABLE_deref_unsynchronised(state, tbl) ==
    IF state = "uninit" THEN [ready |-> FALSE, table |-> <<>>]
    ELSE [ready |-> TRUE,
          table |-> IF state = "done" THEN tbl ELSE [i \in 0..255 |-> 0]]

\* Deref of the lazy static CRC_TABLE: the value is handed out only once the
\* initialiser has completed
CRC_TABLE_deref(state, tbl) ==
    IF state = "done" THEN [ready |-> TRUE, table |-> tbl]
    ELSE [ready |-> FALSE, table |-> <<>>]

\* the checksum of the first `bytes` bytes of message
mode_s_crc(message, bytes) ==
    IF Len(message) < bytes THEN Panic(message, "IndexOutOfBounds")
    ELSE get_crc_remainder(Prefix(message, bytes))

\* u32::to_be_bytes()[1..4]
to_be_bytes3(v) == <<(v \div 65536) % 256, (v \div 256) % 256, v % 256>>

----------------------------------------------------------------------------
(* nom's combinators, as src/src/parser.rs uses them.                      *)
(* A parser is a value: a record naming the combinator and its arguments.  *)
(* apply(p, input) runs it.                                                *)

take_bits(count) == [p |-> "take_bits", count |-> count]
tag_bits(pattern, count) == [p |-> "tag_bits", pattern |-> pattern, count |-> count]
peek(inner) == [p |-> "peek", inner |-> inner]
\* verify(inner, |v| v in allowed)
verify(inner, allowed) == [p |-> "verify", inner |-> inner, allowed |-> allowed]
\* map(inner, |_| value)
map(inner, value) == [p |-> "map", inner |-> inner, value |-> value]
alt(parsers) == [p |-> "alt", parsers |-> parsers]
tuple(parsers) == [p |-> "tuple", parsers |-> parsers]
\* many_m_n(n, n, inner)
many_m_n(n, inner) == [p |-> "many_m_n", n |-> n, inner |-> inner]
\* map(inner, decode_callsign)
map_decode_callsign(inner) == [p |-> "map_decode_callsign", inner |-> inner]
\* a parser function of parser.rs, by name
fn(name) == [p |-> "fn", name |-> name]

\* The loop of nom::bits::complete::take over input.iter().take(cnt + 1):
\* i is the 1-based index of the next byte, last the index the iterator
\* stops at; the result is <<acc, end_offset>>.
RECURSIVE take_loop(_, _, _, _, _, _)
take_loop(s, i, last, offset, remaining, acc) ==
    IF i > last \/ remaining = 0 THEN <<acc, 0>>
    ELSE IF remaining < 8 - offset
         THEN <<acc + ((s[i] % Pow2(8 - offset)) \div Pow2(8 - offset - remaining)),
                remaining + offset>>
         ELSE take_loop(s, i + 1, last, 0, remaining - (8 - offset),
                        acc + (s[i] % Pow2(8 - offset)) * Pow2(remaining - (8 - offset)))

\* the Ok of take: the bytes read whole are sliced away, input[cnt..];
\* a cnt past the end of the slice panics
take_ok(input, cnt, r) ==
    IF cnt > Len(input.s) THEN Panic(input, "SliceOutOfBounds")
    ELSE Ok([s |-> Slice(input.s, cnt), o |-> r[2]], r[1])

\* take without its length check (the variant C1 is tested against)
apply_take_bits_unchecked(input, count) ==
    IF count = 0 THEN Ok(input, 0)
    ELSE take_ok(input, (count + input.o) \div 8,
                 take_loop(input.s, 1,
                           IF ((count + input.o) \div 8) + 1 < Len(input.s)
                           THEN ((count + input.o) \div 8) + 1 ELSE Len(input.s),
                           input.o, count, 0))

\* take_bits(count)(input): count bits, most significant first
apply_take_bits(input, count) ==
    IF count = 0 THEN Ok(input, 0)
    ELSE IF Len(input.s) * 8 < count + input.o THEN Error(input, "Eof")
    ELSE take_ok(input, (count + input.o) \div 8,
                 take_loop(input.s, 1,
                           IF ((count + input.o) \div 8) + 1 < Len(input.s)
                           THEN ((count + input.o) \div 8) + 1 ELSE Len(input.s),
                           input.o, count, 0))

\* tag_bits(pattern, count)(input), given the result r of take_bits(count)
apply_tag_bits(input, pattern, r) ==
    IF r.tag = "Ok" /\ r.val # pattern THEN Error(input, "TagBits") ELSE r

\* a peek that lets the inner parser consume (the variant C4 is tested against)
apply_peek_consuming(input, r) == r

\* peek(p)(input), given the result r of p: the input is left where it was
apply_peek(input, r) == IF r.tag = "Ok" THEN Ok(input, r.val) ELSE r

\* a verify whose condition is never evaluated (the variant C3 is tested against)
apply_verify_always(input, r, allowed) == r

\* verify(p, cond)(input), given the result r of p
apply_verify(input, r, allowed) ==
    IF r.tag = "Ok" /\ r.val \notin allowed THEN Error(input, "Verify") ELSE r

\* map(p, |_| value)(input), given the result r of p
apply_map(r, value) == IF r.tag = "Ok" THEN Ok(r.rest, value) ELSE r

CHAR_LOOKUP ==
    << "#", "A", "B", "C", "D", "E", "F", "G", "H", "I", "J", "K", "L", "M", "N", "O",
       "P", "Q", "R", "S", "T", "U", "V", "W", "X", "Y", "Z", "#", "#", "#", "#", "#",
       " ", "#", "#", "#", "#", "#", "#", "#", "#", "#", "#", "#", "#", "#", "#", "#",
       "0", "1", "2", "3", "4", "5", "6", "7", "8", "9", "#", "#", "#", "#", "#", "#" >>

\* CHAR_LOOKUP[b as usize] for each code of r.val; an index outside the table panics
decode_callsign(r) ==
    IF r.tag # "Ok" THEN r
    ELSE IF \E i \in 1..Len(r.val) : r.val[i] + 1 \notin DOMAIN CHAR_LOOKUP
    THEN Panic(r.rest, "IndexOutOfBounds")
    ELSE Ok(r.rest, [i \in 1..Len(r.val) |-> CHAR_LOOKUP[r.val[i] + 1]])

RECURSIVE call(_, _)
RECURSIVE apply(_, _)
RECURSIVE apply_alt(_, _)
RECURSIVE apply_tuple(_, _, _)
RECURSIVE apply_many_m_n(_, _, _, _)

\* an alt that stops at its first alternative (the variant C2 is tested against)
alt_first(r, input, parsers) == r

\* alt: the next alternative is tried when r is a recoverable Err::Error;
\* the error of the last alternative is the one returned
alt_next(r, input, parsers) ==
    IF r.tag = "Error" /\ parsers # <<>> THEN apply_alt(input, parsers) ELSE r

apply_alt(input, parsers) ==
    alt_next(apply(Head(parsers), input), input, Tail(parsers))

\* tuple: the parsers in order, each on what the one before left; acc
\* collects the values
tuple_next(r, parsers, acc) ==
    IF r.tag # "Ok" THEN r ELSE apply_tuple(r.rest, parsers, Append(acc, r.val))

apply_tuple(input, parsers, acc) ==
    IF parsers = <<>> THEN Ok(input, acc)
    ELSE tuple_next(apply(Head(parsers), input), Tail(parsers), acc)

\* many_m_n(n, n, inner): exactly n times
many_next(r, n, inner, acc) ==
    IF r.tag # "Ok" THEN r ELSE apply_many_m_n(r.rest, n - 1, inner, Append(acc, r.val))

apply_many_m_n(input, n, inner, acc) ==
    IF n = 0 THEN Ok(input, acc)
    ELSE many_next(apply(inner, input), n, inner, acc)

apply(p, input) ==
    CASE p.p = "take_bits" -> apply_take_bits(input, p.count)
      [] p.p = "tag_bits" -> apply_tag_bits(input, p.pattern, apply_take_bits(input, p.count))
      [] p.p = "peek" -> apply_peek(input, apply(p.inner, input))
      [] p.p = "verify" -> apply_verify(input, apply(p.inner, input), p.allowed)
      [] p.p = "map" -> apply_map(apply(p.inner, input), p.value)
      [] p.p = "alt" -> apply_alt(input, p.parsers)
      [] p.p = "tuple" -> apply_tuple(input, p.parsers, <<>>)
      [] p.p = "many_m_n" -> apply_many_m_n(input, p.n, p.inner, <<>>)
      [] p.p = "map_decode_callsign" -> decode_callsign(apply(p.inner, input))
      [] p.p = "fn" -> call(p.name, input)

----------------------------------------------------------------------------
(* Message grammar, src/src/parser.rs.  Each parser function is the tuple  *)
(* of parsers it runs and the value it builds from what they return.       *)

aircraft_identification_of(t) ==
    IF t.tag # "Ok" THEN t
    ELSE Ok(t.rest,
            [variant |-> "AircraftIdentification",
             emitter_category |-> t.val[2],
             callsign |-> t.val[3]])

parse_aircraft_identification(input) ==
    aircraft_identification_of(
        apply(tuple(<<verify(take_bits(5), 1..4),
                      take_bits(3),
                      map_decode_callsign(many_m_n(8, take_bits(6)))>>), input))

\* u16::rotate_left(4)
rotate_left4(l) == ((l * 16) % Pow2(16)) + (l \div Pow2(12))

\* wrapping_mul and wrapping_sub in place of the checked ones (the variant
\* C18 is tested against)
altitude_of_wrapping(l, q, r) ==
    IF rotate_left4(l) + r > U16_MAX THEN -2
    ELSE ((((rotate_left4(l) + r) * q) % Pow2(16)) + Pow2(16) - 1000) % Pow2(16)

\* (l.rotate_left(4) + r).checked_mul(q).and_then(|r| r.checked_sub(1000)):
\* the value, -1 for None, -2 when the unchecked + leaves the u16 range
altitude_of(l, q, r) ==
    IF rotate_left4(l) + r > U16_MAX THEN -2
    ELSE IF (rotate_left4(l) + r) * q > U16_MAX THEN -1
    ELSE IF (rotate_left4(l) + r) * q < 1000 THEN -1
    ELSE (rotate_left4(l) + r) * q - 1000

altitude_result(rest, altitude) ==
    IF altitude = -2 THEN Panic(rest, "AddOverflow")
    ELSE IF altitude = -1 THEN Error(rest, "TooLarge")
    ELSE Ok(rest, altitude)

altitude_from(t) ==
    IF t.tag # "Ok" THEN t
    ELSE altitude_result(t.rest, altitude_of(t.val[1], t.val[2], t.val[3]))

parse_altitude(input) ==
    altitude_from(
        apply(tuple(<<take_bits(7),
                      alt(<<map(tag_bits(0, 1), 100), map(tag_bits(1, 1), 25)>>),
                      take_bits(4)>>), input))

parse_cpr_parity(input) ==
    apply(alt(<<map(tag_bits(0, 1), "Even"), map(tag_bits(1, 1), "Odd")>>), input)

parse_coordinate(input) == apply(take_bits(17), input)

airborne_position_of(t) ==
    IF t.tag # "Ok" THEN t
    ELSE Ok(t.rest,
            [variant |-> "AirbornePosition",
             altitude |-> t.val[3],
             cpr_frame |-> [parity |-> t.val[5],
                            position |-> [latitude |-> t.val[6],
                                          longitude |-> t.val[7]]]])

\* The four tuples of the function, chained by ?, are one sequence
parse_airborne_position(input) ==
    airborne_position_of(
        apply(tuple(<<verify(take_bits(5), 9..18),
                      take_bits(3),
                      fn("parse_altitude"),
                      take_bits(1),
                      fn("parse_cpr_parity"),
                      fn("parse_coordinate"),
                      fn("parse_coordinate")>>), input))

parse_vertical_rate_source(input) ==
    apply(alt(<<map(tag_bits(0, 1), "BarometricPressureAltitude"),
                map(tag_bits(1, 1), "GeometricAltitude")>>), input)

parse_sign(input) ==
    apply(alt(<<map(tag_bits(0, 1), 1), map(tag_bits(1, 1), -1)>>), input)

parse_velocity(input) == apply(take_bits(10), input)

parse_vertical_rate(input) == apply(take_bits(9), input)

\* u16 as i16
as_i16(v) == IF v > I16_MAX THEN v - Pow2(16) ELSE v

in_i16(v) == v >= I16_MIN /\ v <= I16_MAX

\* ((vel as i16 - 1) * sign): the value, or I16_MIN - 1 when an operation
\* leaves the i16 range
velocity_of(vel, sign) ==
    IF in_i16(as_i16(vel) - 1) /\ in_i16((as_i16(vel) - 1) * sign)
    THEN (as_i16(vel) - 1) * sign
    ELSE I16_MIN - 1

\* the magnitude without the bias of 1 (the variant C19 is tested against)
vrate_magnitude_unbiased(vrate_value) ==
    IF vrate_value < 1 THEN -1
    ELSE IF vrate_value * 64 > U16_MAX THEN -1
    ELSE vrate_value * 64

\* vrate_value.checked_sub(1).and_then(|v| v.checked_mul(64)): the value, -1 for None
vrate_magnitude(vrate_value) ==
    IF vrate_value < 1 THEN -1
    ELSE IF (vrate_value - 1) * 64 > U16_MAX THEN -1
    ELSE (vrate_value - 1) * 64

\* The f64 results are carried by the two signed components they are
\* computed from: heading = atan2(v_ew, v_ns) in degrees, plus 360 when
\* negative, and ground_speed = sqrt(v_ew^2 + v_ns^2).
airborne_velocity_result(rest, v_ew, v_ns, magnitude, vrate_sign, vrate_src) ==
    IF ~in_i16(v_ew) \/ ~in_i16(v_ns) THEN Panic(rest, "VelocityOverflow")
    ELSE IF magnitude = -1 THEN Error(rest, "TooLarge")
    ELSE IF ~in_i16(as_i16(magnitude) * vrate_sign)
    THEN Panic(rest, "VerticalRateOverflow")
    ELSE Ok(rest,
            [variant |-> "AirborneVelocity",
             v_ew |-> v_ew,
             v_ns |-> v_ns,
             vertical_rate |-> as_i16(magnitude) * vrate_sign,
             vertical_rate_source |-> vrate_src])

airborne_velocity_of(t) ==
    IF t.tag # "Ok" THEN t
    ELSE airborne_velocity_result(t.rest,
                                  velocity_of(t.val[5], t.val[4]),
                                  velocity_of(t.val[7], t.val[6]),
                                  vrate_magnitude(t.val[10]),
                                  t.val[9], t.val[8])

\* The three tuples of the function, chained by ?, are one sequence
parse_airborne_velocity(input) ==
    airborne_velocity_of(
        apply(tuple(<<verify(take_bits(5), {19}),
                      verify(take_bits(3), {1}),
                      take_bits(5),
                      fn("parse_sign"),
                      fn("parse_velocity"),
                      fn("parse_sign"),
                      fn("parse_velocity"),
                      fn("parse_vertical_rate_source"),
                      fn("parse_sign"),
                      fn("parse_vertical_rate"),
                      take_bits(10)>>), input))

parse_icao_address(input) ==
    apply(tuple(<<take_bits(8), take_bits(8), take_bits(8)>>), input)

parse_adsb_message_kind(input) ==
    apply(alt(<<fn("parse_aircraft_identification"),
                fn("parse_airborne_position"),
                fn("parse_airborne_velocity")>>), input)

\* the capability reported as the type code (the variant C15 is tested against)
adsb_message_of_capability(t) ==
    IF t.tag # "Ok" THEN t
    ELSE Ok(t.rest,
            [variant |-> "ADSBMessage",
             capability |-> t.val[2],
             icao_address |-> t.val[3],
             type_code |-> t.val[2],
             kind |-> t.val[5]])

adsb_message_of(t) ==
    IF t.tag # "Ok" THEN t
    ELSE Ok(t.rest,
            [variant |-> "ADSBMessage",
             capability |-> t.val[2],
             icao_address |-> t.val[3],
             type_code |-> t.val[4],
             kind |-> t.val[5]])

\* The two tuples of the function, chained by ?, are one sequence
parse_adsb_message(input) ==
    adsb_message_of(
        apply(tuple(<<alt(<<tag_bits(17, 5), tag_bits(18, 5)>>),
                      take_bits(3),
                      fn("parse_icao_address"),
                      peek(take_bits(5)),
                      fn("parse_adsb_message_kind")>>), input))

parse_unknown(input) == Ok(input, [variant |-> "Unknown"])

\* f & (1 << k) != 0
bit_set(f, k) == BitAnd(f, Pow2(k)) # 0

\* if f & mask != 0 { hex_gillham |= bit }
gillham_or(hex_gillham, f, k, bit) ==
    IF bit_set(f, k) THEN BitOr(hex_gillham, bit) ELSE hex_gillham

\* the identity code taken as it is, without the permutation (the variant
\* C8 is tested against)
decode_id_13_field_plain(f) == f

\* the decoder with the X bit mapped as well, bit 6 to 0x0800 (the variant
\* C20 is tested against)
decode_id_13_field_with_x(f) ==
    gillham_or(gillham_or(gillham_or(gillham_or(gillham_or(gillham_or(gillham_or(
    gillham_or(gillham_or(gillham_or(gillham_or(gillham_or(gillham_or(0,
        f, 12, 16), f, 11, 4096), f, 10, 32), f, 9, 8192), f, 8, 64),
        f, 7, 16384), f, 6, 2048), f, 5, 256), f, 4, 1), f, 3, 512), f, 2, 2),
        f, 1, 1024), f, 0, 4)

decode_id_13_field(f) ==
    gillham_or(                                          \* Bit  0 = D4
    gillham_or(                                          \* Bit  1 = B4
    gillham_or(                                          \* Bit  2 = D2
    gillham_or(                                          \* Bit  3 = B2
    gillham_or(                                          \* Bit  4 = D1
    gillham_or(                                          \* Bit  5 = B1
    gillham_or(                                          \* Bit  7 = A4
    gillham_or(                                          \* Bit  8 = C4
    gillham_or(                                          \* Bit  9 = A2
    gillham_or(                                          \* Bit 10 = C2
    gillham_or(                                          \* Bit 11 = A1
    gillham_or(0, f, 12, 16),                            \* Bit 12 = C1
               f, 11, 4096),
               f, 10, 32),
               f, 9, 8192),
               f, 8, 64),
               f, 7, 16384),
               f, 5, 256),
               f, 4, 1),
               f, 3, 512),
               f, 2, 2),
               f, 1, 1024),
               f, 0, 4)

\* Squawk(((value & 0xFF00) >> 8) as u8, (value & 0x00FF) as u8)
squawk_from_u16(value) == <<(value \div 256) % 256, value % 256>>

\* The cursor that comes back is the one that went in: the advanced one is
\* bound to _input and dropped.
surveillance_identity_of(input, t) ==
    IF t.tag # "Ok" THEN t
    ELSE Ok(input,
            [variant |-> "SurveillanceIdentity",
             squawk |-> squawk_from_u16(decode_id_13_field(t.val[5]))])

parse_surveillance_identity(input) ==
    surveillance_identity_of(input,
        apply(tuple(<<tag_bits(5, 5),
                      take_bits(3),
                      take_bits(5),
                      take_bits(6),
                      take_bits(13),
                      take_bits(24)>>), input))

parse_mode_s_message_kind(input) == parse_surveillance_identity(input)

\* crc is the result of mode_s_crc(input.0, 7)
mode_s_message_of(kind, crc) ==
    IF crc.tag = "Panic" THEN Panic(kind.rest, crc.kind)
    ELSE IF crc.tag = "Error" THEN Error(kind.rest, "LengthValue")
    ELSE Ok(kind.rest,
            [variant |-> "ModeSMessage",
             icao_address |-> to_be_bytes3(crc.val),
             kind |-> kind.val])

mode_s_message_from(kind) ==
    IF kind.tag # "Ok" THEN kind
    ELSE mode_s_message_of(kind, mode_s_crc(kind.rest.s, 7))

parse_mode_s_message(input) ==
    mode_s_message_from(parse_mode_s_message_kind(input))

call(name, input) ==
    CASE name = "parse_aircraft_identification" -> parse_aircraft_identification(input)
      [] name = "parse_altitude" -> parse_altitude(input)
      [] name = "parse_cpr_parity" -> parse_cpr_parity(input)
      [] name = "parse_coordinate" -> parse_coordinate(input)
      [] name = "parse_airborne_position" -> parse_airborne_position(input)
      [] name = "parse_vertical_rate_source" -> parse_vertical_rate_source(input)
      [] name = "parse_sign" -> parse_sign(input)
      [] name = "parse_velocity" -> parse_velocity(input)
      [] name = "parse_vertical_rate" -> parse_vertical_rate(input)
      [] name = "parse_airborne_velocity" -> parse_airborne_velocity(input)
      [] name = "parse_icao_address" -> parse_icao_address(input)
      [] name = "parse_adsb_message_kind" -> parse_adsb_message_kind(input)
      [] name = "parse_adsb_message" -> parse_adsb_message(input)
      [] name = "parse_unknown" -> parse_unknown(input)
      [] name = "parse_mode_s_message" -> parse_mode_s_message(input)

\* nom::bits::bits on success: back from the bit cursor r.rest to a byte
\* slice; a partly read byte is sliced away too
bits_ok(r, remaining_bytes_index) ==
    IF remaining_bytes_index > Len(r.rest.s)
    THEN Panic(r.rest.s, "SliceOutOfBounds")
    ELSE Ok(Slice(r.rest.s, remaining_bytes_index), r.val)

\* nom::bits::bits(parser)(input), given the result r of parser((input, 0))
bits(r) ==
    IF r.tag # "Ok" THEN [r EXCEPT !.rest = r.rest.s]
    ELSE bits_ok(r, (r.rest.o \div 8) + (IF r.rest.o % 8 = 0 THEN 0 ELSE 1))

message_of(r) ==
    IF r.tag # "Ok" THEN r
    ELSE Ok(r.rest, [downlink_format |-> r.val[1], kind |-> r.val[2]])

\* IResult<&[u8], Message>: rest is the remaining byte slice, val the Message
parse_message(input) ==
    message_of(bits(
        apply(tuple(<<peek(take_bits(5)),
                      alt(<<fn("parse_mode_s_message"),
                            fn("parse_adsb_message"),
                            fn("parse_unknown")>>),
                      take_bits(24)>>), [s |-> input, o |-> 0])))

\* Result<(Message, &[u8]), ParserError>: val is the message, rest the
\* remaining slice; an Err(ParserError) is the tag "Error"
parse_binary(bytes) == parse_message(bytes)

----------------------------------------------------------------------------
(* AVR text framing, src/src/parser.rs.  A &str is a sequence of           *)
(* one-character strings.                                                  *)

HEX_UPPER == <<"0", "1", "2", "3", "4", "5", "6", "7", "8", "9",
               "A", "B", "C", "D", "E", "F">>
HEX_LOWER == <<"0", "1", "2", "3", "4", "5", "6", "7", "8", "9",
               "a", "b", "c", "d", "e", "f">>

\* char::to_digit(16): the value of d, or -1 when d is no hex digit
to_digit(d) ==
    IF \E i \in 1..16 : HEX_UPPER[i] = d
    THEN (CHOOSE i \in 1..16 : HEX_UPPER[i] = d) - 1
    ELSE IF \E i \in 1..16 : HEX_LOWER[i] = d
    THEN (CHOOSE i \in 1..16 : HEX_LOWER[i] = d) - 1
    ELSE -1

\* |d: char| d.is_digit(16)
is_digit(d) == to_digit(d) >= 0

\* the two digits read low nibble first (the variant C14 is tested against)
from_str_radix_swapped(d) == to_digit(d[1]) + 16 * to_digit(d[2])

\* u8::from_str_radix(d, 16) for the two hex digits d
from_str_radix(d) == 16 * to_digit(d[1]) + to_digit(d[2])

\* many0(map_res(take_while_m_n(2, 2, is_digit(16)), from_str_radix)):
\* pairs of hex digits as long as there are two of them; it never fails
RECURSIVE many0_hex(_, _)
many0_hex(input, acc) ==
    IF Len(input) >= 2 /\ is_digit(input[1]) /\ is_digit(input[2])
    THEN many0_hex(Slice(input, 2), Append(acc, from_str_radix(Prefix(input, 2))))
    ELSE Ok(input, acc)

\* tag(t)(input) for a one-character t
tag(input, t) ==
    IF Len(input) >= 1 /\ input[1] = t THEN Ok(Slice(input, 1), t)
    ELSE Error(input, "Tag")

\* the closing tag(";") and the Ok((input, bytes)) of parse_avr_frame
avr_frame_end(bytes, semicolon) ==
    IF semicolon.tag # "Ok" THEN semicolon ELSE Ok(semicolon.rest, bytes.val)

avr_frame_body(bytes) == avr_frame_end(bytes, tag(bytes.rest, ";"))

avr_frame_start(star) ==
    IF star.tag # "Ok" THEN star ELSE avr_frame_body(many0_hex(star.rest, <<>>))

\* IResult<&str, Vec<u8>>: rest is the text after the frame, val the bytes
parse_avr_frame(input) == avr_frame_start(tag(input, "*"))

\* let (_, message) = parse_message(&frame)?; Ok((message, remaining))
avr_message(remaining, message) ==
    IF message.tag # "Ok" THEN [message EXCEPT !.rest = remaining]
    ELSE Ok(remaining, message.val)

avr_frame_message(avr_frame) ==
    IF avr_frame.tag # "Ok" THEN avr_frame
    ELSE avr_message(avr_frame.rest, parse_message(avr_frame.val))

\* Result<(Message, &str), ParserError>: val is the message, rest the
\* remaining text
parse_avr(line) == avr_frame_message(parse_avr_frame(line))

----------------------------------------------------------------------------
(* Squawk, src/src/types.rs.  Squawk(a, b) is the pair <<a, b>>.           *)

\* The digit loop of u16::from_str_radix(value, 16) from character i on:
\* a character that is no hex digit and a value above u16::MAX are errors
RECURSIVE radix_loop(_, _, _)
radix_loop(value, i, acc) ==
    IF i > Len(value) THEN Ok(<<>>, acc)
    ELSE IF ~is_digit(value[i]) THEN Error(<<>>, "InvalidDigit")
    ELSE IF acc * 16 + to_digit(value[i]) > U16_MAX THEN Error(<<>>, "PosOverflow")
    ELSE radix_loop(value, i + 1, acc * 16 + to_digit(value[i]))

\* u16::from_str_radix(value, 16): the empty string is an error, a leading
\* '+' is skipped when digits follow
u16_from_str_radix(value) ==
    IF Len(value) = 0 THEN Error(<<>>, "Empty")
    ELSE IF value[1] \in {"+", "-"} /\ Len(value) = 1 THEN Error(<<>>, "InvalidDigit")
    ELSE IF value[1] = "+" THEN radix_loop(value, 2, 0)
    ELSE radix_loop(value, 1, 0)

\* Ok(u16::from_str_radix(value, 16)?.into())
squawk_of_parsed(r) ==
    IF r.tag # "Ok" THEN r ELSE Ok(<<>>, squawk_from_u16(r.val))

\* <Squawk as FromStr>::from_str
squawk_from_str(value) == squawk_of_parsed(u16_from_str_radix(value))

\* {:X} without the width (the variant C16 is tested against)
fmt_02X_unpadded(b) ==
    IF b < 16 THEN <<HEX_UPPER[b + 1]>>
    ELSE <<HEX_UPPER[(b \div 16) + 1], HEX_UPPER[(b % 16) + 1]>>

\* {:02X} of a u8
fmt_02X(b) == <<HEX_UPPER[(b \div 16) + 1], HEX_UPPER[(b % 16) + 1]>>

\* <Squawk as Display>::fmt: write!(f, "{:02X}{:02X}", self.0, self.1)
squawk_to_string(squawk) == fmt_02X(squawk[1]) \o fmt_02X(squawk[2])

----------------------------------------------------------------------------
(* CPR resolver, src/src/cpr.rs.  An f64 is carried as the exact fraction  *)
(* [n, d] (d > 0) it approximates: the raw values divided by CPR_MAX, the  *)
(* zone indices j and m and the even latitude are exact in f64; the other  *)
(* products are within one rounding of the fraction.                       *)

NZ == 15
CPR_MAX == 131072

\* f64 % of Rust on whole numbers: the remainder has the sign of a
fmod(a, n) == IF a >= 0 THEN a % n ELSE 0 - ((0 - a) % n)

\* (360 / zones) * (k / CPR_MAX), with 360 / 131072 = 45 / 16384
zone_degrees(k, zones) == [n |-> 45 * k, d |-> zones * (CPR_MAX \div 8)]

\* if x >= limit { x -= 360.0 }
wrap_at(x, limit) ==
    IF x.n >= limit * x.d THEN [n |-> x.n - 360 * x.d, d |-> x.d] ELSE x

\* a/b < c/d for a, c >= 0 and b, d > 0, without forming the products
RECURSIVE rat_less(_, _, _, _)
rat_less(a, b, c, d) ==
    IF a \div b # c \div d THEN a \div b < c \div d
    ELSE IF c % d = 0 THEN FALSE
    ELSE IF a % b = 0 THEN TRUE
    ELSE rat_less(d, c % d, b, a % b)

\* The thresholds of cpr_nl in ascending order, each <<whole degrees,
\* 10^-8 degrees, the NL returned below it>>
NL_TABLE ==
    <<
       <<10, 47047130, 59>>, <<14, 82817437, 58>>, <<18, 18626357, 57>>, <<21, 2939493, 56>>,
       <<23, 54504487, 55>>, <<25, 82924707, 54>>, <<27, 93898710, 53>>, <<29, 91135686, 52>>,
       <<31, 77209708, 51>>, <<33, 53993436, 50>>, <<35, 22899598, 49>>, <<36, 85025108, 48>>,
       <<38, 41241892, 47>>, <<39, 92256684, 46>>, <<41, 38651832, 45>>, <<42, 80914012, 44>>,
       <<44, 19454951, 43>>, <<45, 54626723, 42>>, <<46, 86733252, 41>>, <<48, 16039128, 40>>,
       <<49, 42776439, 39>>, <<50, 67150166, 38>>, <<51, 89342469, 37>>, <<53, 9516153, 36>>,
       <<54, 27817472, 35>>, <<55, 44378444, 34>>, <<56, 59318756, 33>>, <<57, 72747354, 32>>,
       <<58, 84763776, 31>>, <<59, 95459277, 30>>, <<61, 4917774, 29>>, <<62, 13216659, 28>>,
       <<63, 20427479, 27>>, <<64, 26616523, 26>>, <<65, 31845310, 25>>, <<66, 36171008, 24>>,
       <<67, 39646774, 23>>, <<68, 42322022, 22>>, <<69, 44242631, 21>>, <<70, 45451075, 20>>,
       <<71, 45986473, 19>>, <<72, 45884545, 18>>, <<73, 45177442, 17>>, <<74, 43893416, 16>>,
       <<75, 42056257, 15>>, <<76, 39684391, 14>>, <<77, 36789461, 13>>, <<78, 33374083, 12>>,
       <<79, 29428225, 11>>, <<80, 24923213, 10>>, <<81, 19801349, 9>>, <<82, 13956981, 8>>,
       <<83, 7199445, 7>>, <<83, 99173563, 6>>, <<84, 89166191, 5>>, <<85, 75541621, 4>>,
       <<86, 53536998, 3>>, <<87, 0, 2>>
    >>

\* lat < the threshold t without lat = -lat: a negative latitude is below
\* every threshold (the variant C22 is tested against)
below_threshold_signed(lat, t) ==
    IF lat.n < 0 THEN TRUE
    ELSE IF lat.n \div lat.d # t[1] THEN lat.n \div lat.d < t[1]
    ELSE rat_less(lat.n % lat.d, lat.d, t[2], 100000000)

\* |lat| < the threshold t
below_threshold(lat, t) ==
    IF (IF lat.n < 0 THEN 0 - lat.n ELSE lat.n) \div lat.d # t[1]
    THEN (IF lat.n < 0 THEN 0 - lat.n ELSE lat.n) \div lat.d < t[1]
    ELSE rat_less((IF lat.n < 0 THEN 0 - lat.n ELSE lat.n) % lat.d, lat.d,
                  t[2], 100000000)

\* the chain of if lat < ... { return ... } from threshold i on; return 1 at its end
RECURSIVE nl_scan(_, _)
nl_scan(lat, i) ==
    IF i > Len(NL_TABLE) THEN 1
    ELSE IF below_threshold(lat, NL_TABLE[i]) THEN NL_TABLE[i][3]
    ELSE nl_scan(lat, i + 1)

cpr_nl(lat) == nl_scan(lat, 1)

\* floor(a * (z - 1) - b * z + 0.5) for a = even / CPR_MAX, b = odd / CPR_MAX
zone_index(even, odd, z) ==
    (even * (z - 1) - odd * z + (CPR_MAX \div 2)) \div CPR_MAX

\* the body of get_lat_lon once nl = cpr_nl(lat) is known; p and c are the
\* pair chosen by the parity of the latest frame, ni = max(nl - p, 1)
lon_of(nl, p, c, cpr_lon_even, cpr_lon_odd) ==
    wrap_at(zone_degrees(fmod(zone_index(cpr_lon_even, cpr_lon_odd, nl),
                              IF nl - p > 1 THEN nl - p ELSE 1) * CPR_MAX + c,
                         IF nl - p > 1 THEN nl - p ELSE 1),
            180)

\* The longitudes are the raw values; the division by CPR_MAX is in
\* zone_index and zone_degrees.
get_lat_lon(lat, cpr_lon_even, cpr_lon_odd, parity) ==
    [tag |-> "Some",
     latitude |-> lat,
     longitude |-> lon_of(cpr_nl(lat),
                          IF parity = "Even" THEN 0 ELSE 1,
                          IF parity = "Even" THEN cpr_lon_even ELSE cpr_lon_odd,
                          cpr_lon_even, cpr_lon_odd)]

\* D_LAT_EVEN * (j % 60.0 + cpr_lat_even), less 360 from 270 on
lat_even_of(j, even_frame) ==
    wrap_at(zone_degrees(fmod(j, 4 * NZ) * CPR_MAX + even_frame.latitude, 4 * NZ), 270)

\* D_LAT_ODD * (j % 59.0 + cpr_lat_odd), less 360 from 270 on
lat_odd_of(j, odd_frame) ==
    wrap_at(zone_degrees(fmod(j, 4 * NZ - 1) * CPR_MAX + odd_frame.latitude, 4 * NZ - 1), 270)

\* get_position once the frames are known to be of opposite parity
resolve(even_frame, odd_frame, latest_frame, j) ==
    get_lat_lon(IF latest_frame = even_frame
                THEN lat_even_of(j, even_frame) ELSE lat_odd_of(j, odd_frame),
                even_frame.longitude, odd_frame.longitude, latest_frame.parity)

\* only the pair (Even, Odd) is matched (the variant C12 is tested against)
get_position_ordered(cpr_frames) ==
    IF cpr_frames[1].parity = "Even" /\ cpr_frames[2].parity = "Odd"
    THEN resolve(cpr_frames[1], cpr_frames[2], cpr_frames[2],
                 zone_index(cpr_frames[1].latitude, cpr_frames[2].latitude, 4 * NZ))
    ELSE [tag |-> "None"]

\* Option<Position>: cpr_frames is the pair <<older, latest>>, a frame is
\* [parity, latitude, longitude]
get_position(cpr_frames) ==
    IF cpr_frames[1].parity = cpr_frames[2].parity THEN [tag |-> "None"]
    ELSE IF cpr_frames[1].parity = "Even"
    THEN resolve(cpr_frames[1], cpr_frames[2], cpr_frames[2],
                 zone_index(cpr_frames[1].latitude, cpr_frames[2].latitude, 4 * NZ))
    ELSE resolve(cpr_frames[2], cpr_frames[1], cpr_frames[2],
                 zone_index(cpr_frames[2].latitude, cpr_frames[1].latitude, 4 * NZ))

----------------------------------------------------------------------------
(* Inputs *)

MaxLen == 32       \* longest byte slice handed to parse_binary
MaxPayload == 11   \* longest payload a CRC is generated for

\* The frames of the tests of src/src/parser.rs and src/src/crc.rs
RefIdentification == <<141, 72, 64, 214, 32, 44, 195, 113, 195, 44, 224, 87, 96, 152>>
RefPositionEven == <<141, 64, 98, 29, 88, 195, 130, 214, 144, 200, 172, 40, 99, 167>>
RefPositionOdd == <<141, 64, 98, 29, 88, 195, 134, 67, 92, 196, 18, 105, 42, 214>>
RefVelocity == <<141, 72, 80, 32, 153, 68, 9, 148, 8, 56, 23, 91, 40, 79>>
RefTisB == <<149, 41, 130, 229, 104, 27, 130, 178, 43, 183, 230, 52, 174, 150>>
RefIdentity1200 == <<40, 0, 8, 8, 244, 96, 224>>
RefIdentity5670 == <<40, 0, 29, 138, 45, 165, 174>>
RefInvalid7 == <<138, 143, 255, 96, 74, 180, 192>>
RefInvalid11 == <<138, 186, 138, 35, 153, 255, 4, 0, 0, 0, 97>>

RefFrames ==
    { RefIdentification, RefPositionEven, RefPositionOdd, RefVelocity, RefTisB,
      RefIdentity1200, RefIdentity5670, RefInvalid7, RefInvalid11 }

\* f continued with the byte fill up to n bytes
Pad(f, n, fill) == [i \in 1..n |-> IF i <= Len(f) THEN f[i] ELSE fill]

\* First bytes: DF 0, DF 5, DF 11, DF 17, DF 18, DF 31
DfBytes == {0, 40, 88, 141, 149, 255}

\* Fifth bytes, type code and subtype of an extended squitter:
\* TC 0, TC 1, TC 4, TC 5, TC 9, TC 11, TC 18, TC 19/0, TC 19/1, TC 31
TypeBytes == {0, 8, 39, 40, 72, 88, 151, 152, 153, 255}

\* Sixth and seventh bytes: the 12 altitude bits (l, q, r) and what follows
AltitudeBytes == {<<0, 0>>, <<0, 160>>, <<195, 130>>, <<254, 240>>, <<255, 255>>}

\* Ninth and tenth bytes: vertical-rate source, sign and magnitude
RateBytes == {<<0, 0>>, <<7, 252>>, <<8, 56>>, <<16, 4>>, <<255, 255>>}

FillBytes == {0, 255}

\* A slice of MaxLen bytes made of the chosen bytes
Template(b1, b5, b67, b910, fill) ==
    [i \in 1..MaxLen |->
        CASE i = 1 -> b1
          [] i = 5 -> b5
          [] i = 6 -> b67[1]
          [] i = 7 -> b67[2]
          [] i = 9 -> b910[1]
          [] i = 10 -> b910[2]
          [] OTHER -> fill]

\* Extended-squitter slices vary in every chosen byte; the others in the fill
Templates ==
    { Template(b1, b5, b67, b910, fill) :
        b1 \in {141, 149}, b5 \in TypeBytes, b67 \in AltitudeBytes,
        b910 \in RateBytes, fill \in FillBytes }
    \cup { Template(b1, fill, <<fill, fill>>, <<fill, fill>>, fill) :
             b1 \in DfBytes, fill \in FillBytes }
    \cup { Pad(f, MaxLen, fill) : f \in RefFrames, fill \in FillBytes }

\* Every slice of 0..MaxLen bytes that starts a template
Inputs == { Prefix(t, n) : t \in Templates, n \in 0..MaxLen }

\* Payloads of 0..MaxPayload bytes
Payloads ==
    { Prefix(Pad(f, MaxPayload, fill), n) :
        f \in {<<>>, RefIdentification, RefPositionEven, RefVelocity, RefTisB,
               RefIdentity1200},
        fill \in FillBytes, n \in 0..MaxPayload }

\* Addresses a sender overlays on the parity field: none, A40442, FFFFFF
Addresses == {0, 10748994, 16777215}

NoResult == [tag |-> "None", rest |-> <<>>, val |-> 0, kind |-> "None"]

\* the variables a specification does not use
Unused ==
    /\ arg = <<>>
    /\ out = NoResult
    /\ once = "uninit"
    /\ table = <<>>
    /\ calls = <<>>

----------------------------------------------------------------------------
(* The caller of parse_binary *)

Init ==
    /\ data \in Inputs
    /\ pc = "input"
    /\ result = NoResult
    /\ frame = <<>>
    /\ flipped = -1
    /\ rem = NoResult
    /\ Unused

\* let _ = adsb::parse_binary(data)
ParseBinary ==
    /\ pc = "input"
    /\ result' = parse_binary(data)
    /\ pc' = "parsed"
    /\ UNCHANGED <<data, frame, flipped, rem, others>>

Next == ParseBinary

Spec == Init /\ [][Next]_vars

----------------------------------------------------------------------------
(* A sender, a channel and a receiver around get_crc_remainder *)

InitCrc ==
    /\ data \in Payloads
    /\ pc = "payload"
    /\ result = NoResult
    /\ frame = <<>>
    /\ flipped = -1
    /\ rem = NoResult
    /\ Unused

\* the three parity bytes of payload m with address addr overlaid
parity_of(m, addr) ==
    to_be_bytes3(BitXor(get_crc_remainder(m \o <<0, 0, 0>>).val, addr))

\* The sender appends the remainder of the payload followed by 00 00 00,
\* XOR its address (DF 5) or XOR nothing (DF 17/18).
Transmit ==
    /\ pc = "payload"
    /\ \E addr \in Addresses :
          frame' = data \o parity_of(data, addr)
    /\ pc' = "framed"
    /\ UNCHANGED <<data, result, flipped, rem, others>>

\* bit i (0 = first bit of the first byte) of f inverted
flip_bit(f, i) ==
    [f EXCEPT ![(i \div 8) + 1] = BitXor(@, Pow2(7 - (i % 8)))]

\* One bit of the frame is inverted in transit
FlipBit ==
    /\ pc = "framed"
    /\ \E i \in 0..(8 * Len(frame) - 1) :
          /\ frame' = flip_bit(frame, i)
          /\ flipped' = i
    /\ pc' = "received"
    /\ UNCHANGED <<data, result, rem, others>>

\* The receiver computes the remainder of what arrived
Check ==
    /\ pc \in {"framed", "received"}
    /\ rem' = get_crc_remainder(frame)
    /\ pc' = "checked"
    /\ UNCHANGED <<data, result, frame, flipped, others>>

\* get_crc_remainder called on the payload alone, of any length from 0
CheckPayload ==
    /\ pc = "payload"
    /\ rem' = get_crc_remainder(data)
    /\ pc' = "checked_payload"
    /\ UNCHANGED <<data, result, frame, flipped, others>>

NextCrc == Transmit \/ FlipBit \/ Check \/ CheckPayload

SpecCrc == InitCrc /\ [][NextCrc]_vars

----------------------------------------------------------------------------
(* A caller of get_position *)

\* Raw CPR latitudes and longitudes: the ends of the range, its middle and
\* the frames of the tests of src/src/cpr.rs
RawLatitudes == {0, 1, 65536, 74158, 75050, 93000, 108011, 131071}
RawLongitudes == {0, 36777, 50194, 51372, 110088, 131071}

Frames ==
    [parity : {"Even", "Odd"}, latitude : RawLatitudes, longitude : RawLongitudes]

InitCpr ==
    /\ arg \in Frames \X Frames
    /\ pc = "frames"
    /\ data = <<>>
    /\ result = NoResult
    /\ frame = <<>>
    /\ flipped = -1
    /\ rem = NoResult
    /\ out = NoResult
    /\ once = "uninit"
    /\ table = <<>>
    /\ calls = <<>>

\* let position = get_position((&older, &latest))
GetPosition ==
    /\ pc = "frames"
    /\ out' = get_position(arg)
    /\ pc' = "resolved"
    /\ UNCHANGED <<data, result, frame, flipped, rem, arg, once, table, calls>>

NextCpr == GetPosition

SpecCpr == InitCpr /\ [][NextCpr]_vars

----------------------------------------------------------------------------
(* A caller of parse_avr *)

\* the bytes as text, two digits of the table for each
to_hex(bytes, digits) ==
    [i \in 1..(2 * Len(bytes)) |->
        IF i % 2 = 1 THEN digits[(bytes[(i + 1) \div 2] \div 16) + 1]
        ELSE digits[(bytes[i \div 2] % 16) + 1]]

\* Frame bodies: the test frames and short byte strings, in upper and in
\* lower case; then the same with the last digit missing, and with a
\* character that is no hex digit at the end
AvrBodies ==
    { to_hex(b, digits) :
        b \in RefFrames \cup {<<>>, <<0>>, <<0, 0, 0>>, <<255, 255, 255, 255>>},
        digits \in {HEX_UPPER, HEX_LOWER} }

AvrBroken ==
    { Prefix(b, Len(b) - 1) : b \in {x \in AvrBodies : Len(x) > 0} }
    \cup { b \o <<"G">> : b \in AvrBodies }

AvrStarts == { <<"*">>, <<>>, <<"x">>, <<"*", "*">> }

AvrEnds == { <<";">>, <<>>, <<";", "*", "0", "0", ";">>, <<";", "\n">>, <<"\n">> }

AvrLines ==
    { a \o b \o c : a \in AvrStarts, b \in AvrBodies \cup AvrBroken, c \in AvrEnds }

InitAvr ==
    /\ arg \in AvrLines
    /\ pc = "line"
    /\ data = <<>>
    /\ result = NoResult
    /\ frame = <<>>
    /\ flipped = -1
    /\ rem = NoResult
    /\ out = NoResult
    /\ once = "uninit"
    /\ table = <<>>
    /\ calls = <<>>

\* adsb::parse_avr(&line)
ParseAvr ==
    /\ pc = "line"
    /\ out' = parse_avr(arg)
    /\ pc' = "avr_parsed"
    /\ UNCHANGED <<data, result, frame, flipped, rem, arg, once, table, calls>>

NextAvr == ParseAvr

SpecAvr == InitAvr /\ [][NextAvr]_vars

----------------------------------------------------------------------------
(* A caller of Squawk::from_str and of to_string *)

OctalDigits == {"0", "1", "2", "3", "4", "5", "6", "7"}

\* Every string of four octal digits, and strings that are none
SquawkTexts ==
    { <<a, b, c, d>> : a \in OctalDigits, b \in OctalDigits,
                       c \in OctalDigits, d \in OctalDigits }
    \cup { <<>>, <<"1", "2">>, <<"F", "F", "F", "F">>, <<"a", "b", "c", "d">>,
           <<"1", "2", "3", "4", "5">>, <<"7", "G", "0", "0">>,
           <<"+", "1", "2", "3">>, <<"+">>, <<"-", "1">>, <<"1", "2", "0", "8">> }

InitSquawk ==
    /\ arg \in SquawkTexts
    /\ pc = "text"
    /\ data = <<>>
    /\ result = NoResult
    /\ frame = <<>>
    /\ flipped = -1
    /\ rem = NoResult
    /\ out = NoResult
    /\ once = "uninit"
    /\ table = <<>>
    /\ calls = <<>>

\* let squawk = Squawk::from_str(text)
FromStr ==
    /\ pc = "text"
    /\ out' = squawk_from_str(arg)
    /\ pc' = "from_str"
    /\ UNCHANGED <<data, result, frame, flipped, rem, arg, once, table, calls>>

\* squawk.to_string(): the text is kept in out.rest, next to the Squawk
Display ==
    /\ pc = "from_str"
    /\ out.tag = "Ok"
    /\ out' = [out EXCEPT !.rest = squawk_to_string(out.val)]
    /\ pc' = "shown"
    /\ UNCHANGED <<data, result, frame, flipped, rem, arg, once, table, calls>>

NextSquawk == FromStr \/ Display

SpecSquawk == InitSquawk /\ [][NextSquawk]_vars

----------------------------------------------------------------------------
(* Threads calling get_crc_remainder, sharing the lazy static CRC_TABLE.   *)
(* once is the state of the static's std::sync::Once, table its value;     *)
(* calls[t] is the frame of thread t: where it is (at), the input, the     *)
(* index i of the next byte, the local rem, the number of calls made, the  *)
(* last value returned, and whether it was ever parked on the Once.        *)

NumThreads == 2
MaxCalls == 2

Threads == 1..NumThreads

CrcInputs == { <<1, 2>>, <<1, 2, 3>>, <<141, 72, 64, 214>>, RefIdentity1200 }

Idle == [at |-> "idle", input |-> <<>>, i |-> 0, remainder |-> 0,
         made |-> 0, returned |-> NoResult, waited |-> FALSE]

InitShared ==
    /\ once = "uninit"
    /\ table = <<>>
    /\ calls = [t \in Threads |-> Idle]
    /\ pc = "threads"
    /\ data = <<>>
    /\ result = NoResult
    /\ frame = <<>>
    /\ flipped = -1
    /\ rem = NoResult
    /\ arg = <<>>
    /\ out = NoResult

\* Thread t enters get_crc_remainder(input): rem = 0, the length check
Call(t) ==
    /\ calls[t].at = "idle"
    /\ calls[t].made < MaxCalls
    /\ \E input \in CrcInputs :
         calls' = [calls EXCEPT ![t] =
            IF Len(input) < 3
            THEN [@ EXCEPT !.at = "idle", !.input = input, !.made = @ + 1,
                           !.returned = Error(input, "InputTooShort")]
            ELSE [@ EXCEPT !.at = "loop", !.input = input, !.i = 1,
                           !.remainder = 0, !.made = @ + 1,
                           !.returned = NoResult]]
    /\ UNCHANGED <<data, pc, result, frame, flipped, rem, arg, out, once, table>>

\* One iteration of the loop, the static already initialised
Step(t) ==
    /\ calls[t].at = "loop"
    /\ calls[t].i <= Len(calls[t].input) - 3
    /\ CRC_TABLE_deref(once, table).ready
    /\ calls' = [calls EXCEPT ![t] =
          [@ EXCEPT !.i = @ + 1,
                    !.remainder = crc_step_shared(CRC_TABLE_deref(once, table).table,
                                                  calls[t].remainder,
                                                  calls[t].input[calls[t].i])]]
    /\ UNCHANGED <<data, pc, result, frame, flipped, rem, arg, out, once, table>>

\* The first dereference: thread t wins the Once and runs the initialiser
StartInit(t) ==
    /\ calls[t].at = "loop"
    /\ calls[t].i <= Len(calls[t].input) - 3
    /\ once = "uninit"
    /\ once' = "running"
    /\ calls' = [calls EXCEPT ![t] = [@ EXCEPT !.at = "init"]]
    /\ UNCHANGED <<data, pc, result, frame, flipped, rem, arg, out, table>>

\* The initialiser returns: the table is stored and the Once completes
FinishInit(t) ==
    /\ calls[t].at = "init"
    /\ table' = CRC_TABLE
    /\ once' = "done"
    /\ calls' = [calls EXCEPT ![t] = [@ EXCEPT !.at = "loop"]]
    /\ UNCHANGED <<data, pc, result, frame, flipped, rem, arg, out>>

\* A dereference while another thread runs the initialiser parks thread t
Wait(t) ==
    /\ calls[t].at = "loop"
    /\ calls[t].i <= Len(calls[t].input) - 3
    /\ once = "running"
    /\ ~CRC_TABLE_deref(once, table).ready
    /\ calls' = [calls EXCEPT ![t] = [@ EXCEPT !.at = "parked", !.waited = TRUE]]
    /\ UNCHANGED <<data, pc, result, frame, flipped, rem, arg, out, once, table>>

\* The Once has completed: the parked thread resumes its dereference
Wake(t) ==
    /\ calls[t].at = "parked"
    /\ once = "done"
    /\ calls' = [calls EXCEPT ![t] = [@ EXCEPT !.at = "loop"]]
    /\ UNCHANGED <<data, pc, result, frame, flipped, rem, arg, out, once, table>>

\* After the loop: the last three bytes are XOR-ed in and Ok(rem) returned
Return(t) ==
    /\ calls[t].at = "loop"
    /\ calls[t].i > Len(calls[t].input) - 3
    /\ calls' = [calls EXCEPT ![t] =
          [@ EXCEPT !.at = "idle",
                    !.returned = Ok(calls[t].input,
                                    crc_finish(calls[t].input, calls[t].remainder))]]
    /\ UNCHANGED <<data, pc, result, frame, flipped, rem, arg, out, once, table>>

NextShared ==
    \E t \in Threads :
        \/ Call(t)
        \/ Step(t)
        \/ StartInit(t)
        \/ FinishInit(t)
        \/ Wait(t)
        \/ Wake(t)
        \/ Return(t)

SpecShared == InitShared /\ [][NextShared]_vars

----------------------------------------------------------------------------
(* A caller of decode_id_13_field *)

\* the width of the identity code
ID_BITS == 13

IdentityCodes == 0..(Pow2(ID_BITS) - 1)

InitIdentity ==
    /\ arg \in IdentityCodes
    /\ pc = "code"
    /\ data = <<>>
    /\ result = NoResult
    /\ frame = <<>>
    /\ flipped = -1
    /\ rem = NoResult
    /\ out = 0
    /\ once = "uninit"
    /\ table = <<>>
    /\ calls = <<>>

\* let squawk_code = decode_id_13_field(id_code)
DecodeId13Field ==
    /\ pc = "code"
    /\ out' = decode_id_13_field(arg)
    /\ pc' = "decoded"
    /\ UNCHANGED <<data, result, frame, flipped, rem, arg, once, table, calls>>

NextIdentity == DecodeId13Field

SpecIdentity == InitIdentity /\ [][NextIdentity]_vars

----------------------------------------------------------------------------
(* A caller of cpr_nl *)

\* the latitude 10^-7 degrees or less below threshold i of cpr_nl
nl_below(i) ==
    [n |-> NL_TABLE[i][1] * 10000000 + (NL_TABLE[i][2] \div 10) - 1, d |-> 10000000]

\* the threshold i of cpr_nl rounded up to 10^-7 degrees
nl_from(i) ==
    [n |-> NL_TABLE[i][1] * 10000000 + ((NL_TABLE[i][2] + 9) \div 10), d |-> 10000000]

\* the threshold i itself, for the thresholds whose 10^-8 degrees fit
nl_at(i) == [n |-> NL_TABLE[i][1] * 100000000 + NL_TABLE[i][2], d |-> 100000000]

negated(lat) == [n |-> 0 - lat.n, d |-> lat.d]

\* Latitudes on both sides of every threshold, the values of the tests, the
\* equator, the poles and values outside [-90, 90], each with its negative
NlNorthern ==
    { nl_below(i) : i \in 1..Len(NL_TABLE) }
    \cup { nl_from(i) : i \in 1..Len(NL_TABLE) }
    \cup { nl_at(i) : i \in 1..4 }
    \cup { [n |-> 0, d |-> 1], [n |-> 869, d |-> 10], [n |-> 899, d |-> 10],
           [n |-> 90, d |-> 1], [n |-> 183, d |-> 1], [n |-> 360, d |-> 1] }

NlLatitudes == NlNorthern \cup { negated(lat) : lat \in NlNorthern }

InitNl ==
    /\ arg \in NlLatitudes
    /\ pc = "lat"
    /\ data = <<>>
    /\ result = NoResult
    /\ frame = <<>>
    /\ flipped = -1
    /\ rem = NoResult
    /\ out = 0
    /\ once = "uninit"
    /\ table = <<>>
    /\ calls = <<>>

\* let nl = cpr_nl(lat)
CprNl ==
    /\ pc = "lat"
    /\ out' = cpr_nl(arg)
    /\ pc' = "nl"
    /\ UNCHANGED <<data, result, frame, flipped, rem, arg, once, table, calls>>

NextNl == CprNl

SpecNl == InitNl /\ [][NextNl]_vars

----------------------------------------------------------------------------
(* Properties of parse_binary, checked under Spec *)

\* data[0] >> 3
df_of(bytes) == bytes[1] \div 8

\* the 5-bit type code and the 3-bit subtype of an extended squitter
type_code_of(bytes) == bytes[5] \div 8
subtype_of(bytes) == bytes[5] % 8

\* the type code selects none of the three sub-grammars
unsupported_type(bytes) ==
    /\ type_code_of(bytes) \notin 1..4
    /\ type_code_of(bytes) \notin 9..18
    /\ ~(type_code_of(bytes) = 19 /\ subtype_of(bytes) = 1)

\* r is s[k..] for some k
IsSuffix(r, s) == Len(r) <= Len(s) /\ r = Slice(s, Len(s) - Len(r))

\* the 12 altitude bits of an airborne position: ((l << 4) + r) * resolution
altitude_product(bytes) ==
    ((bytes[6] \div 2) * 16 + (bytes[7] \div 16)) * (IF bytes[6] % 2 = 1 THEN 25 ELSE 100)

\* the 9-bit vertical-rate magnitude of an airborne velocity
vrate_bits(bytes) == (bytes[9] % 8) * 64 + (bytes[10] \div 4)

\* the 13 identity bits of a DF 5 frame, bit offsets 19..31
identity_bits(bytes) == (bytes[3] % 32) * 256 + bytes[4]

\* C1: for every byte string of 0..MaxLen bytes parse_binary returns Ok or
\* Err, never a panic (no index out of range, no arithmetic overflow), and
\* what it returns as the rest is a part of the input: no read goes past
\* its end.
C1_NeverPanics ==
    pc = "parsed" =>
        /\ result.tag \in {"Ok", "Error"}
        /\ IsSuffix(result.rest, data)

\* the empty input has been parsed, and the answer is an Err
C1_Witness == pc = "parsed" /\ data = <<>> /\ result.tag = "Error"

\* C2: every 14-byte input whose first 5 bits are 17 or 18 is parsed
\* successfully, and the message's downlink_format is data[0] >> 3,
\* whatever the other bits are.
C2_ExtendedSquitterSucceeds ==
    (pc = "parsed" /\ Len(data) = 14 /\ df_of(data) \in {17, 18}) =>
        /\ result.tag = "Ok"
        /\ result.val.downlink_format = df_of(data)

\* a 14-byte DF 18 input whose body no sub-grammar accepts has been parsed
C2_Witness ==
    /\ pc = "parsed" /\ Len(data) = 14 /\ df_of(data) = 18
    /\ result.tag = "Ok" /\ result.val.downlink_format = 18
    /\ result.val.kind.variant = "Unknown"

C4_UnknownConsumesNothing ==
    (pc = "parsed" /\ Len(data) >= 1 /\ df_of(data) \notin {5, 17, 18}) =>
        /\ result.tag = "Ok"
        /\ result.val.kind.variant = "Unknown"
        /\ result.val.downlink_format = df_of(data)
        /\ result.rest \in {data, Slice(data, 1)}

\* C4, amended: an input whose first 5 bits are a downlink format other
\* than 5, 17 and 18 is parsed successfully as Unknown with that format
\* when it holds 3 bytes or more, and the 24-bit field is taken on this path
\* too, so that the rest is input[3..]; with 1 or 2 bytes parse_binary
\* returns an error.
C4_UnknownTakesParity ==
    (pc = "parsed" /\ Len(data) >= 1 /\ df_of(data) \notin {5, 17, 18}) =>
        IF Len(data) >= 3
        THEN /\ result.tag = "Ok"
             /\ result.val.kind.variant = "Unknown"
             /\ result.val.downlink_format = df_of(data)
             /\ result.rest = Slice(data, 3)
        ELSE result.tag = "Error"

\* a 7-byte DF 11 input has been parsed as Unknown, 4 bytes left
C4_Witness ==
    /\ pc = "parsed" /\ Len(data) = 7 /\ df_of(data) = 11
    /\ result.tag = "Ok" /\ result.val.kind.variant = "Unknown"
    /\ Len(result.rest) = 4

\* C5: when parse_binary succeeds with a Mode-S message (DF 5) the rest is
\* input[7..], and when it succeeds with an ADS-B message (DF 17/18) the
\* rest is input[14..].
C5_RestFollowsFrame ==
    (pc = "parsed" /\ result.tag = "Ok") =>
        /\ result.val.kind.variant = "ModeSMessage" => result.rest = Slice(data, 7)
        /\ result.val.kind.variant = "ADSBMessage" => result.rest = Slice(data, 14)

\* C6: an input shorter than the frame of its downlink format (under 7
\* bytes for DF 5, under 14 bytes for DF 17/18, the empty input included)
\* makes parse_binary return an error, at every such length.
C6_ShortInputFails ==
    (pc = "parsed" /\
        \/ Len(data) = 0
        \/ Len(data) \in 1..6 /\ df_of(data) = 5
        \/ Len(data) \in 1..13 /\ df_of(data) \in {17, 18}) =>
        result.tag = "Error"

\* C7: in a 14-byte DF 17/18 frame of a supported type code, an altitude
\* whose product is above 65535 or below 1000 and a vertical-rate magnitude
\* of 0 make parse_binary return an error, not a message.
C7_OverflowFails ==
    (pc = "parsed" /\ Len(data) = 14 /\ df_of(data) \in {17, 18} /\
        \/ /\ type_code_of(data) \in 9..18
           /\ (altitude_product(data) > U16_MAX \/ altitude_product(data) < 1000)
        \/ /\ type_code_of(data) = 19 /\ subtype_of(data) = 1
           /\ vrate_bits(data) = 0) =>
        result.tag = "Error"

\* C8: for a DF 5 input of 7 bytes or more the message is a Mode-S message
\* whose ICAO address is the CRC-24 remainder of the first 7 bytes, high
\* byte first, and whose squawk is the Gillham decode of the 13 bits at
\* offsets 19..31; nothing after the 7th byte has a part in it.  The bytes
\* 28 00 08 08 F4 60 E0 give A40442 and squawk 1200.
C8_IdentityRecovery ==
    (pc = "parsed" /\ Len(data) >= 7 /\ df_of(data) = 5) =>
        /\ result.tag = "Ok"
        /\ result.val.downlink_format = 5
        /\ result.val.kind.variant = "ModeSMessage"
        /\ result.val.kind.icao_address =
              to_be_bytes3(get_crc_remainder(Prefix(data, 7)).val)
        /\ result.val.kind.kind.variant = "SurveillanceIdentity"
        /\ result.val.kind.kind.squawk =
              squawk_from_u16(decode_id_13_field(identity_bits(data)))
        /\ Prefix(data, 7) = RefIdentity1200 =>
              /\ result.val.kind.icao_address = <<164, 4, 66>>
              /\ result.val.kind.kind.squawk = <<18, 0>>

\* the reference frame followed by other bytes has been parsed
C8_Witness ==
    /\ pc = "parsed" /\ Len(data) > 7 /\ Prefix(data, 7) = RefIdentity1200
    /\ result.tag = "Ok"
    /\ result.val.kind.icao_address = <<164, 4, 66>>
    /\ result.val.kind.kind.squawk = <<18, 0>>

----------------------------------------------------------------------------
(* Properties of get_crc_remainder, checked under SpecCrc *)

\* (b[-3] << 16) | (b[-2] << 8) | b[-1]
last_three(f) == f[Len(f) - 2] * 65536 + f[Len(f) - 1] * 256 + f[Len(f)]

\* C9: for a payload m and three bytes p, the remainder of m ++ p is the
\* remainder of m ++ 00 00 00 XOR p; it is 0 when p is that remainder, high
\* byte first; and the frame 8D4840D6202CC371C32CE0576098 has remainder 0.
C9_GenerateAndCheckAgree ==
    (pc = "checked" /\ flipped = -1) =>
        /\ rem.tag = "Ok"
        /\ rem.val = BitXor(get_crc_remainder(data \o <<0, 0, 0>>).val, last_three(frame))
        /\ last_three(frame) = get_crc_remainder(data \o <<0, 0, 0>>).val => rem.val = 0
        /\ frame = RefIdentification => rem.val = 0

\* the reference frame has been generated from its payload and checked
C9_Witness ==
    /\ pc = "checked" /\ flipped = -1
    /\ frame = RefIdentification /\ rem.val = 0

\* C10: a 14-byte frame of remainder 0 with any one of its 112 bits
\* inverted has a remainder other than 0.
C10_SingleBitErrorDetected ==
    (pc = "checked" /\ flipped >= 0 /\ Len(frame) = 14
        /\ get_crc_remainder(flip_bit(frame, flipped)).val = 0) =>
        /\ rem.tag = "Ok"
        /\ rem.val # 0

\* the first bit of a 14-byte frame of remainder 0 was inverted
C10_Witness ==
    /\ pc = "checked" /\ flipped = 0 /\ Len(frame) = 14
    /\ get_crc_remainder(flip_bit(frame, flipped)).val = 0
    /\ rem.val # 0

\* C11: get_crc_remainder returns Err(InputTooShort) exactly when the input
\* has fewer than 3 bytes, and for 3 bytes or more it returns Ok(r) with
\* r below 2^24.
C11_TooShortExactlyBelowThree ==
    (pc \in {"checked", "checked_payload"}) =>
        LET input == IF pc = "checked" THEN frame ELSE data
        IN  IF Len(input) < 3
            THEN rem.tag = "Error" /\ rem.kind = "InputTooShort"
            ELSE rem.tag = "Ok" /\ rem.val >= 0 /\ rem.val < Pow2(24)

\* a payload of exactly 3 bytes has been given to get_crc_remainder
C11_Witness ==
    pc = "checked_payload" /\ Len(data) = 3 /\ rem.tag = "Ok"

----------------------------------------------------------------------------
(* Properties of get_position, checked under SpecCpr *)

\* C12: get_position returns None if and only if the two frames have the
\* same parity, whatever the raw latitudes and longitudes are.
C12_NoneIffSameParity ==
    pc = "resolved" =>
        (out.tag = "None" <=> arg[1].parity = arg[2].parity)

\* an (Odd, Even) pair has been resolved to a position
C12_Witness ==
    /\ pc = "resolved" /\ arg[1].parity = "Odd" /\ arg[2].parity = "Even"
    /\ out.tag = "Some"

\* C13: for every pair of opposite-parity frames with raw values in
\* [0, 131072) the position returned has its latitude in [-90, 90] and its
\* longitude in [-180, 180).
C13_PositionInRange ==
    (pc = "resolved" /\ out.tag = "Some") =>
        /\ out.latitude.n >= (0 - 90) * out.latitude.d
        /\ out.latitude.n <= 90 * out.latitude.d
        /\ out.longitude.n >= (0 - 180) * out.longitude.d
        /\ out.longitude.n < 180 * out.longitude.d

----------------------------------------------------------------------------
(* Properties of parse_avr, checked under SpecAvr *)

\* the index of the first ';' of text, 0 when there is none
first_semicolon(text) ==
    IF \E i \in 1..Len(text) : text[i] = ";"
    THEN CHOOSE i \in 1..Len(text) :
            text[i] = ";" /\ \A k \in 1..(i - 1) : text[k] # ";"
    ELSE 0

\* '*', then pairs of hex digits, then ';'
well_formed(text) ==
    /\ Len(text) >= 2
    /\ text[1] = "*"
    /\ first_semicolon(text) > 0
    /\ first_semicolon(text) % 2 = 0
    /\ \A i \in 2..(first_semicolon(text) - 1) :
          \E k \in 1..16 : text[i] = HEX_UPPER[k] \/ text[i] = HEX_LOWER[k]

\* the value of a hex digit, by its place in the digit tables
digit_value(d) ==
    (CHOOSE k \in 1..16 : d = HEX_UPPER[k] \/ d = HEX_LOWER[k]) - 1

\* the bytes of a well-formed line: each 2-character group, in order
hex_decoded(text) ==
    [i \in 1..((first_semicolon(text) - 2) \div 2) |->
        16 * digit_value(text[2 * i]) + digit_value(text[2 * i + 1])]

\* o is what parse_binary gave (expected), with the text after ';' as rest
same_message(o, expected, remaining) ==
    /\ o.tag = expected.tag
    /\ o.tag = "Ok" => (o.val = expected.val /\ o.rest = remaining)

\* C14: parse_avr fails on a line that does not start with '*', has no ';'
\* or has an odd number of hex digits or another character before the ';';
\* on a well-formed line it returns what parse_binary returns on the bytes
\* of the 2-character groups, with the text after ';' as the remainder.
C14_AvrFraming ==
    pc = "avr_parsed" =>
        IF well_formed(arg)
        THEN same_message(out, parse_binary(hex_decoded(arg)),
                          Slice(arg, first_semicolon(arg)))
        ELSE out.tag = "Error"

\* the line *8D4840D6202CC371C32CE0576098; followed by more text has been parsed
C14_Witness ==
    /\ pc = "avr_parsed"
    /\ arg = <<"*">> \o to_hex(RefIdentification, HEX_UPPER) \o <<";", "*", "0", "0", ";">>
    /\ out.tag = "Ok"
    /\ out.rest = <<"*", "0", "0", ";">>
    /\ out.val.kind.variant = "ADSBMessage"

----------------------------------------------------------------------------
(* Properties of the decoded message, checked under Spec *)

\* the type code agrees with the variant of the ADS-B message m decoded
\* from bytes
type_code_matches(m, bytes) ==
    /\ m.type_code = bytes[5] \div 8
    /\ m.kind.variant = "AircraftIdentification" => m.type_code \in 1..4
    /\ m.kind.variant = "AirbornePosition" =>
          /\ m.type_code \in 9..18
          /\ m.kind.cpr_frame.position.latitude \in 0..(CPR_MAX - 1)
          /\ m.kind.cpr_frame.position.longitude \in 0..(CPR_MAX - 1)
    /\ m.kind.variant = "AirborneVelocity" =>
          (m.type_code = 19 /\ bytes[5] % 8 = 1)

\* C15: in every message decoded successfully, ADSBMessage comes only with
\* downlink format 17 or 18 and ModeSMessage only with 5; the type code of
\* an ADSBMessage is data[4] >> 3 and agrees with the variant (1..4
\* identification, 9..18 position, 19 with subtype 1 velocity); raw CPR
\* latitude and longitude are in [0, 131072).
C15_MessageInvariants ==
    (pc = "parsed" /\ result.tag = "Ok") =>
        /\ result.val.downlink_format = data[1] \div 8
        /\ result.val.kind.variant \in {"ADSBMessage", "ModeSMessage", "Unknown"}
        /\ result.val.kind.variant = "ADSBMessage" =>
              /\ result.val.downlink_format \in {17, 18}
              /\ result.val.kind.kind.variant \in
                    {"AircraftIdentification", "AirbornePosition", "AirborneVelocity"}
              /\ type_code_matches(result.val.kind, data)
        /\ result.val.kind.variant = "ModeSMessage" =>
              result.val.downlink_format = 5

\* the DF 18 position frame of the tests has been decoded, type code 13
C15_Witness ==
    /\ pc = "parsed" /\ data = RefTisB /\ result.tag = "Ok"
    /\ result.val.kind.variant = "ADSBMessage"
    /\ result.val.kind.type_code = 13
    /\ result.val.kind.kind.variant = "AirbornePosition"

----------------------------------------------------------------------------
(* Properties of Squawk, checked under SpecSquawk *)

\* four characters, each an octal digit
four_octal_digits(text) ==
    Len(text) = 4 /\ \A i \in 1..4 : text[i] \in OctalDigits

\* the value of an octal digit character
octal_value(d) ==
    CASE d = "0" -> 0 [] d = "1" -> 1 [] d = "2" -> 2 [] d = "3" -> 3
      [] d = "4" -> 4 [] d = "5" -> 5 [] d = "6" -> 6 [] d = "7" -> 7

\* the u16 whose four hex digits are the digits of text
hex_u16(text) ==
    octal_value(text[1]) * 4096 + octal_value(text[2]) * 256
        + octal_value(text[3]) * 16 + octal_value(text[4])

\* C16: for every string s of four octal digits Squawk::from_str(s)
\* succeeds, the Squawk is the one Squawk::from gives for the u16 whose four
\* hex digits are s (high byte first), and formatting it gives s back.
C16_SquawkRoundTrip ==
    (pc \in {"from_str", "shown"} /\ four_octal_digits(arg)) =>
        /\ out.tag = "Ok"
        /\ out.val = squawk_from_u16(hex_u16(arg))
        /\ out.val = <<octal_value(arg[1]) * 16 + octal_value(arg[2]),
                       octal_value(arg[3]) * 16 + octal_value(arg[4])>>
        /\ pc = "shown" => out.rest = arg

\* "0012" has been parsed and formatted back
C16_Witness ==
    /\ pc = "shown" /\ arg = <<"0", "0", "1", "2">>
    /\ out.val = <<0, 18>> /\ out.rest = arg

----------------------------------------------------------------------------
(* Properties of concurrent callers, checked under SpecShared *)

\* the value thread t last returned is the one the call returns alone
returns_as_alone(t) ==
    (calls[t].at = "idle" /\ calls[t].made > 0) =>
        calls[t].returned = get_crc_remainder(calls[t].input)

\* the static holds nothing before the Once completes, and the table of the
\* polynomial after
table_is_pure == IF once = "done" THEN table = CRC_TABLE ELSE table = <<>>

\* C17: calls running concurrently, racing on the initialisation of the CRC
\* table included, each return what the same call returns alone; the table
\* is the function of the polynomial, and no step changes it once the
\* initialisation has completed.
C17_ConcurrentCallsAgree ==
    /\ [](table_is_pure /\ \A t \in Threads : returns_as_alone(t))
    /\ [][once = "done" => (once' = "done" /\ table' = table)]_vars

\* Two threads have each returned the checksum of a frame that needs the
\* table, one of them after being parked on the running initialisation
C17_Witness ==
    /\ once = "done"
    /\ \A t \in {1, 2} :
         /\ calls[t].at = "idle"
         /\ calls[t].returned.tag = "Ok"
         /\ Len(calls[t].input) > 3
    /\ \E t \in {1, 2} : calls[t].waited

----------------------------------------------------------------------------
(* Properties of the decoded fields, checked under Spec *)

\* the 11-bit sum 16*l + r of the altitude field of an airborne position
altitude_sum(bytes) == (bytes[6] \div 2) * 16 + (bytes[7] \div 16)

\* C18: whenever an airborne position is decoded, its altitude is
\* (16*l + r) * m - 1000 with m = 25 for Q = 1 and 100 for Q = 0; 16*l + r is
\* at most 2047 and the value reported is the exact one, never one wrapped
\* modulo 2^16; Q = 1 with 16*l + r = 1560 gives 38000.
C18_AltitudeExact ==
    (/\ pc = "parsed" /\ result.tag = "Ok"
     /\ result.val.kind.variant = "ADSBMessage"
     /\ result.val.kind.kind.variant = "AirbornePosition") =>
        /\ altitude_sum(data) <= 2047
        /\ result.val.kind.kind.altitude =
              altitude_sum(data) * (IF data[6] % 2 = 1 THEN 25 ELSE 100) - 1000
        /\ result.val.kind.kind.altitude \in 0..U16_MAX
        /\ altitude_sum(data) * (IF data[6] % 2 = 1 THEN 25 ELSE 100) <= U16_MAX
        /\ (data[6] % 2 = 1 /\ altitude_sum(data) = 1560) =>
              result.val.kind.kind.altitude = 38000

\* the even position frame of the tests: Q = 1, 16*l + r = 1560, 38000 ft
C18_Witness ==
    /\ pc = "parsed" /\ data = RefPositionEven /\ result.tag = "Ok"
    /\ data[6] % 2 = 1 /\ altitude_sum(data) = 1560
    /\ result.val.kind.kind.altitude = 38000

\* the sign the vertical-rate sign bit of an airborne velocity stands for
vrate_sign_of(bytes) == IF (bytes[9] \div 8) % 2 = 0 THEN 1 ELSE -1

\* the source the vertical-rate source bit of an airborne velocity stands for
vrate_source_of(bytes) ==
    IF (bytes[9] \div 16) % 2 = 0 THEN "BarometricPressureAltitude"
    ELSE "GeometricAltitude"

\* C19: whenever an airborne velocity is decoded, vertical_rate is
\* s * (v - 1) * 64 for the 9-bit magnitude v, which is in 1..511, and the
\* sign s of the sign bit; it lies in [-32640, 32640], inside the i16 range;
\* the source is barometric for source bit 0 and geometric for 1.  The
\* velocity frame of the tests gives -832, barometric.
C19_VerticalRateExact ==
    (/\ pc = "parsed" /\ result.tag = "Ok"
     /\ result.val.kind.variant = "ADSBMessage"
     /\ result.val.kind.kind.variant = "AirborneVelocity") =>
        /\ vrate_bits(data) \in 1..511
        /\ result.val.kind.kind.vertical_rate =
              vrate_sign_of(data) * (vrate_bits(data) - 1) * 64
        /\ result.val.kind.kind.vertical_rate \in (-32640)..32640
        /\ in_i16(result.val.kind.kind.vertical_rate)
        /\ result.val.kind.kind.vertical_rate_source = vrate_source_of(data)
        /\ data = RefVelocity =>
              /\ result.val.kind.kind.vertical_rate = -832
              /\ result.val.kind.kind.vertical_rate_source = "BarometricPressureAltitude"

\* the velocity frame of the tests has been decoded: -832 fpm, barometric
C19_Witness ==
    /\ pc = "parsed" /\ data = RefVelocity /\ result.tag = "Ok"
    /\ result.val.kind.kind.variant = "AirborneVelocity"
    /\ result.val.kind.kind.vertical_rate = -832
    /\ result.val.kind.kind.vertical_rate_source = "BarometricPressureAltitude"

----------------------------------------------------------------------------
(* Properties of decode_id_13_field, checked under SpecIdentity *)

\* the number of bits set in v
RECURSIVE popcount(_)
popcount(v) == IF v = 0 THEN 0 ELSE (v % 2) + popcount(v \div 2)

\* f with bit k inverted
toggle(f, k) == IF bit_set(f, k) THEN f - Pow2(k) ELSE f + Pow2(k)

\* Input position and output position of the Gillham groups
\* C1 A1 C2 A2 C4 A4 B1 D1 B2 D2 B4 D4
GillhamPositions ==
    { <<12, 4>>, <<11, 12>>, <<10, 5>>, <<9, 13>>, <<8, 6>>, <<7, 14>>,
      <<5, 8>>, <<4, 0>>, <<3, 9>>, <<2, 1>>, <<1, 10>>, <<0, 2>> }

\* C20 as stated: the decoder permutes the 13 bits of the code, so it sets
\* as many bits as the code has, a code of one bit decodes to one bit, and
\* inverting any of the 13 bits gives another squawk value.
C20_ThirteenBitPermutation ==
    pc = "decoded" =>
        /\ popcount(out) = popcount(arg)
        /\ \A k \in 0..(ID_BITS - 1) : arg = Pow2(k) => popcount(out) = 1
        /\ \A k \in 0..(ID_BITS - 1) : decode_id_13_field(toggle(arg, k)) # out

\* C20 (amended): the decoder permutes the 12 bits of the code other than
\* bit 6 and ignores bit 6.  Each output bit named by the table is the input
\* bit it is paired with and no other output bit is set; inverting any bit
\* but bit 6 gives another squawk value, inverting bit 6 gives the same one.
\* 0x0808 decodes to 0x1200 and the code of squawk 5670 to 0x5670.
C20_TwelveBitPermutation ==
    pc = "decoded" =>
        /\ \A p \in GillhamPositions : bit_set(out, p[2]) <=> bit_set(arg, p[1])
        /\ \A j \in 0..15 :
              bit_set(out, j) => \E p \in GillhamPositions : p[2] = j
        /\ popcount(out) = popcount(arg) - (IF bit_set(arg, 6) THEN 1 ELSE 0)
        /\ \A k \in (0..(ID_BITS - 1)) \ {6} :
              decode_id_13_field(toggle(arg, k)) # out
        /\ decode_id_13_field(toggle(arg, 6)) = out
        /\ arg = 2056 => out = 4608
        /\ arg = identity_bits(RefIdentity5670) => out = 22128

\* 0x0848, the code of squawk 1200 with bit 6 set, has been decoded to 0x1200
C20_Witness ==
    /\ pc = "decoded" /\ arg = 2056 + 64 /\ out = 4608
    /\ decode_id_13_field(2056) = out

----------------------------------------------------------------------------
(* The reference CPR algorithm, checked against get_position under SpecCpr *)

\* a mod n, never negative
mod_floor(a, n) == ((a % n) + n) % n

\* dLat * ((J mod zones) + lat), minus 360 from 270 on
reference_latitude(j, raw, zones) ==
    wrap_at(zone_degrees(mod_floor(j, zones) * CPR_MAX + raw, zones), 270)

\* (360 / ni) * ((M mod ni) + lon of the latest frame), minus 360 from 180 on
reference_longitude(nl, ni, c, lon_even, lon_odd) ==
    wrap_at(zone_degrees(mod_floor(zone_index(lon_even, lon_odd, nl), ni) * CPR_MAX + c,
                         ni),
            180)

\* the position of the reference at latitude lat, the latest frame having
\* parity bit p and raw longitude c
reference_at(lat, p, c, lon_even, lon_odd) ==
    [tag |-> "Some",
     latitude |-> lat,
     longitude |-> reference_longitude(cpr_nl(lat),
                                       IF cpr_nl(lat) - p > 1 THEN cpr_nl(lat) - p ELSE 1,
                                       c, lon_even, lon_odd)]

\* the reference for the frames even and odd, latest being the second frame
reference_position(even, odd, latest) ==
    IF latest.parity = "Even"
    THEN reference_at(reference_latitude(zone_index(even.latitude, odd.latitude, 4 * NZ),
                                         even.latitude, 4 * NZ),
                      0, even.longitude, even.longitude, odd.longitude)
    ELSE reference_at(reference_latitude(zone_index(even.latitude, odd.latitude, 4 * NZ),
                                         odd.latitude, 4 * NZ - 1),
                      1, odd.longitude, even.longitude, odd.longitude)

\* C21: for every pair of opposite parity get_position is the reference
\* algorithm with the non-negative modulo, pairs with a negative J or M
\* included; odd (74158, 50194) then even (93000, 51372) resolves to
\* 52.2572021484375, 3.91937255859375.
C21_MatchesReference ==
    (pc = "resolved" /\ arg[1].parity # arg[2].parity) =>
        /\ out = reference_position(IF arg[1].parity = "Even" THEN arg[1] ELSE arg[2],
                                    IF arg[1].parity = "Odd" THEN arg[1] ELSE arg[2],
                                    arg[2])
        /\ (arg = << [parity |-> "Odd", latitude |-> 74158, longitude |-> 50194],
                     [parity |-> "Even", latitude |-> 93000, longitude |-> 51372] >>) =>
              /\ out.latitude.n * 16384 = 856182 * out.latitude.d
              /\ out.longitude.n * 32768 = 128430 * out.longitude.d

----------------------------------------------------------------------------
(* Properties of cpr_nl, checked under SpecNl *)

\* |a| <= |b|
abs_le(a, b) ==
    ~rat_less(IF b.n < 0 THEN 0 - b.n ELSE b.n, b.d,
              IF a.n < 0 THEN 0 - a.n ELSE a.n, a.d)

\* C22: cpr_nl is a step function of |lat|: a latitude and its negative
\* give the same value; a latitude of larger magnitude never gives a larger
\* value; the value is in 1..59, 59 below 10.47047130, 2 from 86.53536998 to
\* 87 and 1 from 87 on; below threshold i and not below threshold i - 1 the
\* value is 60 - i, so every value from 59 down to 1 has its own interval;
\* the zone count max(cpr_nl(lat) - p, 1) is at least 1.
C22_StepFunction ==
    pc = "nl" =>
        /\ out = cpr_nl(negated(arg))
        /\ \A b \in NlLatitudes : abs_le(arg, b) => out >= cpr_nl(b)
        /\ out \in 1..59
        /\ \A i \in 1..58 :
              /\ arg \in {nl_below(i), negated(nl_below(i))} => out = 60 - i
              /\ arg \in {nl_from(i), negated(nl_from(i))} => out = 59 - i
        /\ \A i \in 1..4 : arg \in {nl_at(i), negated(nl_at(i))} => out = 59 - i
        /\ abs_le(arg, [n |-> 104704712, d |-> 10000000]) => out = 59
        /\ (/\ abs_le([n |-> 865353700, d |-> 10000000], arg)
            /\ abs_le(arg, [n |-> 869999999, d |-> 10000000])) => out = 2
        /\ abs_le([n |-> 87, d |-> 1], arg) => out = 1
        /\ \A p \in {0, 1} :
              out - p >= 0 /\ (IF out - p > 1 THEN out - p ELSE 1) >= 1

\* cpr_nl(-86.9) has returned 2, as cpr_nl(86.9) of the tests does
C22_Witness ==
    /\ pc = "nl" /\ arg = [n |-> -869, d |-> 10] /\ out = 2
    /\ cpr_nl([n |-> 869, d |-> 10]) = 2

====
